---- MODULE Spec2Model ----
(***************************************************************************)
(* Cache lifecycle and dual-pass orchestration of the X-LoRA quantized     *)
(* llama model (mistralrs-core/src/xlora_models/quantized_llama.rs).       *)
(*                                                                         *)
(* Tensors are modelled by their shape and provenance: a cached key/value  *)
(* row is the (token, absolute position per batch element, scalings kind)  *)
(* it was computed from; hidden states are the pass input together with    *)
(* the key/value context each layer attended over.  The token routing of   *)
(* the mixture-of-experts feed-forward block (MlpOrMoe::forward) is a      *)
(* second specification, SpecMoE, over the variable moe.                   *)
(***************************************************************************)
EXTENDS Integers, Sequences, FiniteSets, TLC

\* ---------------------------------------------------------------- bounds
NLayers == 2        \* block_count of the loaded model
MaxSeq == 2         \* longest input_ids / input_ids_full fed to forward
MaxCached == 3      \* cache-enabled steps are fed only while slots stay <= MaxCached rows
MaxExperts == 3     \* largest llama.expert_count of a mixture-of-experts layer

\* ------------------------------------------------------ program constants
MAX_SEQ_LEN == 4096

Layers == 1..NLayers
\* batch sizes fed by the caller: a single sequence and a heterogeneous pair
BatchSizes == {1, 2}
\* position offsets fed by the caller: the start of the table and its last row
OffsetSet == {0, MAX_SEQ_LEN - 1}
\* one offset per batch element; only the last element may sit at the last row
Offsets(b) == {v \in [1..b -> OffsetSet] : \A e \in 1..(b - 1) : v[e] = 0}

Range(s) == {s[k] : k \in DOMAIN s}

\* ------------------------------------------------------------- KV slots
\* Option<(Tensor, Tensor)>: None, or Some of a (k, v) pair.  A pair of real
\* key/value tensors is the sequence of its rows along dim 2; the pair of
\* rank-1 Tensor::zeros((1,)) written by forward is a Placeholder.
None == [kind |-> "None", rows |-> <<>>]
Placeholder == [kind |-> "Placeholder", rows |-> <<>>]
SomeKV(rows) == [kind |-> "Some", rows |-> rows]

\* Cache::new(n_layer, true): both sets hold n_layer empty slots
CacheNew(n) == [l \in 1..n |-> None]

Batch(kv) == Len(kv.rows[1].pos)
CachedLen(slot) == Len(slot.rows)

\* ------------------------------------------------------------ tensors
NoTensor == [kind |-> "none"]
\* a (b, seq) tensor of token ids; every batch row carries the same ids
Ids(b, ids) == [b |-> b, ids |-> ids]
NoIds == Ids(0, <<>>)
Err == [kind |-> "Err"]

\* XLoraClassifier::get_dummy_scalings(b_size, seq_len, device, dtype)
GetDummyScalings(b_size, seq_len) == [kind |-> "dummy", b |-> b_size, s |-> seq_len]
\* XLoraClassifier::forward(hidden_states)
ClassifierForward(hidden_states) == [kind |-> "real", of |-> hidden_states]

\* ---------------------------------------------------------- mask memo
\* faulty variant: the diagonal is masked too (j >= i)
MaskTensorInclusive(t) ==
    [shape |-> <<t, t>>,
     data |-> [n \in 1..(t * t) |-> IF ((n - 1) % t) >= ((n - 1) \div t) THEN 1 ELSE 0]]

\* (0..t).flat_map(|i| (0..t).map(move |j| u8::from(j > i))), shape (t, t)
MaskTensor(t) ==
    [shape |-> <<t, t>>,
     data |-> [n \in 1..(t * t) |-> IF ((n - 1) % t) > ((n - 1) \div t) THEN 1 ELSE 0]]

\* ModelWeights::mask: the table after the call and the tensor returned
Mask(ms, t) ==
    IF t \in DOMAIN ms
    THEN [masks |-> ms, mask |-> ms[t]]
    ELSE [masks |-> ms @@ (t :> MaskTensor(t)), mask |-> MaskTensor(t)]

\* faulty variant: any shape is accepted as the target of the broadcast
BroadcastOkAny(shape, rows, cols) == TRUE

\* Tensor::broadcast_as of a rank-2 tensor to a shape ending in <<rows, cols>>
BroadcastOk(shape, rows, cols) ==
    /\ shape[1] \in {1, rows}
    /\ shape[2] \in {1, cols}

\* the broadcast tensor: entry (i, j) reads the source with stride 0 along
\* every dimension of size 1
BroadcastAs(tensor, rows, cols) ==
    [i \in 1..rows |->
        [j \in 1..cols |->
            tensor.data[(IF tensor.shape[1] = 1 THEN 0 ELSE i - 1) * tensor.shape[2]
                        + (IF tensor.shape[2] = 1 THEN 0 ELSE j - 1) + 1]]]

\* --------------------------------------------------------- attention
\* keys/values projected from x and rotated at start_offsets[e] + j
NewRows(x, start_offsets, scalings) ==
    [j \in 1..Len(x.ids) |->
        [tok |-> x.ids[j],
         pos |-> [e \in 1..x.b |-> start_offsets[e] + j - 1],
         scal |-> scalings.kind]]

\* faulty variant: the last row of the table cannot be used
RotaryOkExclusive(x, start_offsets) ==
    \A e \in 1..x.b : start_offsets[e] + Len(x.ids) < MAX_SEQ_LEN

\* apply_rotary_emb: cos/sin.narrow(0, offset, seq_len) on a table of MAX_SEQ_LEN rows
RotaryOk(x, start_offsets) ==
    \A e \in 1..x.b : start_offsets[e] + Len(x.ids) <= MAX_SEQ_LEN

\* softmax attention of the last query over the rows of the slot: equal rows
\* get equal weight, so the output depends on the rows and their relative counts
Count(r, s) == Cardinality({k \in DOMAIN s : s[k] = r})
CommonDiv(s) ==
    CHOOSE d \in 1..Len(s) :
        /\ \A r \in Range(s) : Count(r, s) % d = 0
        /\ \A d2 \in (d + 1)..Len(s) : \E r \in Range(s) : Count(r, s) % d2 # 0
Attend(s) == [r \in Range(s) |-> Count(r, s) \div CommonDiv(s)]

Faults == {"none", "before_store", "after_store"}

\* faulty variant: the slot is overwritten with the new rows instead of appended to
ForwardAttnOverwrite(x, mask, start_offsets, kv_cache, scalings, fault) ==
    LET new == NewRows(x, start_offsets, scalings)
    IN  IF ~RotaryOk(x, start_offsets) \/ fault = "before_store"
        THEN [ok |-> FALSE, stored |-> FALSE, kv_cache |-> kv_cache, att |-> <<>>,
              why |-> IF fault = "before_store" THEN "backend" ELSE "rotary"]
        ELSE IF ~BroadcastOk(mask.shape, Len(x.ids), Len(new)) \/ fault = "after_store"
        THEN [ok |-> FALSE, stored |-> TRUE, kv_cache |-> SomeKV(new), att |-> <<>>,
              why |-> IF BroadcastOk(mask.shape, Len(x.ids), Len(new))
                      THEN "backend" ELSE "mask"]
        ELSE [ok |-> TRUE, stored |-> TRUE, kv_cache |-> SomeKV(new), att |-> Attend(new),
              why |-> "none"]

\* faulty variant: the new rows are concatenated in front of the cached rows
ForwardAttnPrepend(x, mask, start_offsets, kv_cache, scalings, fault) ==
    LET new == NewRows(x, start_offsets, scalings)
        cat_ok == \/ kv_cache.kind = "None"
                  \/ kv_cache.kind = "Some" /\ Batch(kv_cache) = x.b
        kv == IF kv_cache.kind = "Some" THEN new \o kv_cache.rows ELSE new
    IN  IF fault # "none" \/ ~RotaryOk(x, start_offsets) \/ ~cat_ok
           \/ ~BroadcastOk(mask.shape, Len(x.ids), Len(kv))
        THEN [ok |-> FALSE, stored |-> FALSE, kv_cache |-> kv_cache, att |-> <<>>,
              why |-> "backend"]
        ELSE [ok |-> TRUE, stored |-> TRUE, kv_cache |-> SomeKV(kv), att |-> Attend(kv),
              why |-> "none"]

\* LayerWeights::forward_attn on one slot.  fault is a backend failure of a
\* kernel call before, or after, the store into the slot.  why names the call
\* that returned the error: a kernel ("backend"), narrow in apply_rotary_emb
\* ("rotary", lines 187-188), Tensor::cat ("cat", lines 244-245) or
\* mask.broadcast_as ("mask", line 256).
ForwardAttn(x, mask, start_offsets, kv_cache, scalings, fault) ==
    LET new == NewRows(x, start_offsets, scalings)
        cat_ok == \/ kv_cache.kind = "None"
                  \/ kv_cache.kind = "Some" /\ Batch(kv_cache) = x.b
        kv == IF kv_cache.kind = "Some" THEN kv_cache.rows \o new ELSE new
    IN  IF fault = "before_store"
        THEN [ok |-> FALSE, stored |-> FALSE, kv_cache |-> kv_cache, att |-> <<>>,
              why |-> "backend"]
        ELSE IF ~RotaryOk(x, start_offsets)
        THEN [ok |-> FALSE, stored |-> FALSE, kv_cache |-> kv_cache, att |-> <<>>,
              why |-> "rotary"]
        ELSE IF ~cat_ok
        THEN [ok |-> FALSE, stored |-> FALSE, kv_cache |-> kv_cache, att |-> <<>>,
              why |-> "cat"]
        ELSE IF ~BroadcastOk(mask.shape, Len(x.ids), Len(kv))
        THEN [ok |-> FALSE, stored |-> TRUE, kv_cache |-> SomeKV(kv), att |-> <<>>,
              why |-> "mask"]
        ELSE IF fault = "after_store"
        THEN [ok |-> FALSE, stored |-> TRUE, kv_cache |-> SomeKV(kv), att |-> <<>>,
              why |-> "backend"]
        ELSE [ok |-> TRUE, stored |-> TRUE, kv_cache |-> SomeKV(kv), att |-> Attend(kv),
              why |-> "none"]

\* ------------------------------------------------- mixture of experts
\* MlpOrMoe::forward, MoE arm.  A routing weight is a softmax output, written
\* here as a positive integer (the weights of a row up to a common factor);
\* a quotient w / sum is the pair <<w, sum>>.  Experts and rows are numbered
\* from 1 where the source numbers them from 0.
RoutingWeights == {1, 2, 3}
RowIdx == {1, 2}
ExpertCounts == 2..MaxExperts

Min(a, b) == IF a <= b THEN a ELSE b
RECURSIVE SumOver(_, _)
SumOver(f, s) == IF s = <<>> THEN 0 ELSE f[Head(s)] + SumOver(f, Tail(s))

\* faulty variant: an index goes before the sorted indices of equal weight
InsertSortedTiesFirst(dst, x, rw) ==
    LET p == Cardinality({q \in 1..Len(dst) : rw[dst[q]] > rw[x]})
    IN  SubSeq(dst, 1, p) \o <<x>> \o SubSeq(dst, p + 1, Len(dst))

\* one insertion of the stable sort: x comes after every index already sorted
\* that does not compare Greater, i.e. whose weight is >= rw[x]
InsertSorted(dst, x, rw) ==
    LET p == Cardinality({q \in 1..Len(dst) : rw[dst[q]] >= rw[x]})
    IN  SubSeq(dst, 1, p) \o <<x>> \o SubSeq(dst, p + 1, Len(dst))

\* dst = (0..rw.len()).collect(); dst.sort_by(|&i, &j| rw[j].total_cmp(&rw[i]))
RECURSIVE SortBy(_, _)
SortBy(rw, n) == IF n = 0 THEN <<>> ELSE InsertSorted(SortBy(rw, n - 1), n, rw)

\* dst.iter().take(n_expert_used)
Take(dst, n) == SubSeq(dst, 1, Min(n, Len(dst)))

\* for &expert_idx in taken { v[expert_idx].push(item(expert_idx)) }
RECURSIVE PushEach(_, _, _)
PushEach(v, taken, item) ==
    IF taken = <<>> THEN v
    ELSE PushEach([v EXCEPT ![Head(taken)] = Append(@, item[Head(taken)])],
                  Tail(taken), item)

\* lines 93-108: the body of the loop over the rows, for row row_idx
RouteRow(top_x, selected_rws, rw, row_idx, n_expert_used) ==
    LET dst == SortBy(rw, Len(rw))
        taken == Take(dst, n_expert_used)
        sum_routing_weights == SumOver(rw, taken)
    IN  [top_x |-> PushEach(top_x, taken, [e \in 1..Len(rw) |-> row_idx]),
         selected_rws |-> PushEach(selected_rws, taken,
                                   [e \in 1..Len(rw) |-> <<rw[e], sum_routing_weights>>])]

\* Tensor::index_add(idx, src, 0): row i of src is added to row idx[i]; a row of
\* ys is the sequence of the terms added to it (zeros_like: no term)
RECURSIVE AddRows(_, _, _)
AddRows(ys, idx, src) ==
    IF idx = <<>> THEN ys
    ELSE AddRows([ys EXCEPT ![Head(idx)] = Append(@, Head(src))], Tail(idx), Tail(src))

\* faulty variant: the weights of an expert are multiplied in in reverse order
ExpertTermsReversed(top_x, expert_idx, rws) ==
    [i \in 1..Len(top_x) |->
        [expert |-> expert_idx, x |-> top_x[i], coef |-> rws[Len(top_x) + 1 - i]]]

\* lines 127-135: xs.index_select(top_x), expert_layer.forward and broadcast_mul
\* by selected_rws reshaped to a column: row i is coefficient rws[i] times the
\* expert's output on row top_x[i] of xs
ExpertTerms(top_x, expert_idx, rws) ==
    [i \in 1..Len(top_x) |->
        [expert |-> expert_idx, x |-> top_x[i], coef |-> rws[i]]]

NoMoe == [pc |-> "off", routing_weights |-> <<>>, n_expert_used |-> 0, row_idx |-> 0,
          expert_idx |-> 0, top_x |-> <<>>, selected_rws |-> <<>>, ys |-> <<>>]

\* ------------------------------------------------------ orchestration
\* faulty variant: every layer is handed the last slot
SlotIndexLast(i) == NLayers

\* cache.get_mut(i) in the loop over self.layers.iter_mut().enumerate(); layers
\* and slots are numbered from 1 here
SlotIndex(i) == i

\* faulty variant: the scaling pass is always fed the whole context
ScalingPassArgsAlwaysFull(a, l) ==
    [x |-> a.input_ids_full, start_offsets |-> a.seqlen_offsets_full,
     scalings |-> l.dummy_scalings, is_full_pass |-> a.no_kv_cache,
     no_kv_cache |-> a.no_kv_cache]

\* the arguments forward hands to the inner_forward of the scaling pass
ScalingPassArgs(a, l) ==
    IF a.no_kv_cache
    THEN [x |-> a.input_ids_full, start_offsets |-> a.seqlen_offsets_full,
          scalings |-> l.dummy_scalings, is_full_pass |-> TRUE,
          no_kv_cache |-> a.no_kv_cache]
    ELSE [x |-> a.input_ids, start_offsets |-> a.seqlen_offsets,
          scalings |-> l.dummy_scalings, is_full_pass |-> FALSE,
          no_kv_cache |-> a.no_kv_cache]

\* faulty variant: the cache-enabled final pass is not flagged is_full_pass
FinalPassArgsNotFull(a, l) ==
    IF a.no_kv_cache
    THEN [x |-> a.input_ids_full, start_offsets |-> a.seqlen_offsets_full,
          scalings |-> l.scalings, is_full_pass |-> TRUE,
          no_kv_cache |-> a.no_kv_cache]
    ELSE [x |-> a.input_ids, start_offsets |-> a.seqlen_offsets,
          scalings |-> l.scalings, is_full_pass |-> FALSE,
          no_kv_cache |-> a.no_kv_cache]

\* faulty variant: the final pass is handed the dummy scalings again
FinalPassArgsDummy(a, l) ==
    IF a.no_kv_cache
    THEN [x |-> a.input_ids_full, start_offsets |-> a.seqlen_offsets_full,
          scalings |-> l.dummy_scalings, is_full_pass |-> TRUE,
          no_kv_cache |-> a.no_kv_cache]
    ELSE [x |-> a.input_ids, start_offsets |-> a.seqlen_offsets,
          scalings |-> l.dummy_scalings, is_full_pass |-> TRUE,
          no_kv_cache |-> a.no_kv_cache]

\* the arguments forward hands to the inner_forward of the final pass
FinalPassArgs(a, l) ==
    IF a.no_kv_cache
    THEN [x |-> a.input_ids_full, start_offsets |-> a.seqlen_offsets_full,
          scalings |-> l.scalings, is_full_pass |-> TRUE,
          no_kv_cache |-> a.no_kv_cache]
    ELSE [x |-> a.input_ids, start_offsets |-> a.seqlen_offsets,
          scalings |-> l.scalings, is_full_pass |-> TRUE,
          no_kv_cache |-> a.no_kv_cache]

\* faulty variant: the X-LoRA set is not emptied when no_kv_cache is set
SelectCacheNoReset(is_full_pass, no_kv_cache, c, xc) ==
    IF is_full_pass
    THEN [sel |-> "xlora", cache |-> c, xlora_cache |-> xc, assigned |-> {}]
    ELSE [sel |-> "normal", cache |-> c, xlora_cache |-> xc, assigned |-> {}]

\* faulty variant: the reset empties the normal set instead of the X-LoRA set
SelectCacheResetsNormal(is_full_pass, no_kv_cache, c, xc) ==
    IF is_full_pass
    THEN IF no_kv_cache
         THEN [sel |-> "xlora", cache |-> [l \in 1..Len(c) |-> None],
               xlora_cache |-> xc, assigned |-> {"normal"}]
         ELSE [sel |-> "xlora", cache |-> c, xlora_cache |-> xc, assigned |-> {}]
    ELSE [sel |-> "normal", cache |-> c, xlora_cache |-> xc, assigned |-> {}]

\* inner_forward's choice of cache set, with the reset it does first
SelectCache(is_full_pass, no_kv_cache, c, xc) ==
    IF is_full_pass
    THEN IF no_kv_cache
         THEN [sel |-> "xlora", cache |-> c,
               xlora_cache |-> [l \in 1..Len(xc) |-> None], assigned |-> {"xlora"}]
         ELSE [sel |-> "xlora", cache |-> c, xlora_cache |-> xc, assigned |-> {}]
    ELSE [sel |-> "normal", cache |-> c, xlora_cache |-> xc, assigned |-> {}]

\* faulty variant: the normal set is filled with None instead of placeholder pairs
PlaceholderCacheNone(xc) == [l \in 1..Len(xc) |-> None]

\* forward, between the passes of a no_kv_cache step: the normal set becomes
\* one placeholder pair per slot of the X-LoRA set
PlaceholderCache(xc) == [l \in 1..Len(xc) |-> Placeholder]

\* faulty variant: the index is seq_len - 1 in both modes
LogitsIndexSuffix(no_kv_cache, seq_len, seq_len_full) == seq_len - 1

\* the position forward indexes the projected final hidden states at
LogitsIndex(no_kv_cache, seq_len, seq_len_full) ==
    IF no_kv_cache THEN seq_len_full - 1 ELSE seq_len - 1

VARIABLES
    cache,          \* self.cache.lock(): the normal cache set, one slot per layer
    xlora_cache,    \* self.cache.xlora_lock(): the X-LoRA cache set
    masks,          \* self.masks: HashMap<usize, Tensor>
    pc,             \* position inside forward
    args,           \* forward's arguments
    locals,         \* forward's locals
    pass,           \* the running inner_forward activation
    result,         \* what forward returned
    step_start,     \* both cache sets as they were when forward was entered
    pass_start,     \* both cache sets as they were when inner_forward was entered
    assigned,       \* the cache sets the running inner_forward has assigned to
    calls,          \* what the running forward did so far: passes entered, classifier
                    \* calls, operations that returned an error, and the cache sets
                    \* each pass read or assigned
    okSingle,       \* successful single-token cached steps since construction, or -1
    last_scaling,   \* hidden states of the scaling pass of the previous step
    requested,      \* the lengths mask() has been asked for
    moe             \* one call of MlpOrMoe::forward (MoE arm): inputs, loop position, locals

vars == <<cache, xlora_cache, masks, pc, args, locals, pass, result,
          step_start, pass_start, assigned, calls, okSingle, last_scaling, requested,
          moe>>

NoArgs == [input_ids |-> NoIds, input_ids_full |-> NoIds, seqlen_offsets |-> <<>>,
           seqlen_offsets_full |-> <<>>, no_kv_cache |-> FALSE]
NoLocals == [b_size |-> 0, seq_len_full |-> 0, seq_len |-> 0,
             dummy_scalings |-> NoTensor, hidden_states |-> NoTensor,
             scalings |-> NoTensor]
NoPass == [role |-> "none", x |-> NoIds, start_offsets |-> <<>>, scalings |-> NoTensor,
           is_full_pass |-> FALSE, no_kv_cache |-> FALSE, mask |-> NoTensor,
           i |-> 0, sel |-> "none", att |-> <<>>, out |-> NoTensor, stored |-> <<>>]
NoCalls == [scaling |-> 0, classifier |-> 0, final |-> 0, errors |-> 0,
            sets |-> [scaling |-> {}, final |-> {}], why |-> "none", writers |-> {}]
Both(c, xc) == [cache |-> c, xlora_cache |-> xc]

\* ModelWeights as from_ggml/from_gguf build it (lines 653-670), no step running
InitForward ==
    /\ cache = CacheNew(NLayers)
    /\ xlora_cache = CacheNew(NLayers)
    /\ masks = <<>>
    /\ pc = "idle"
    /\ args = NoArgs
    /\ locals = NoLocals
    /\ pass = NoPass
    /\ result = NoTensor
    /\ step_start = Both(CacheNew(NLayers), CacheNew(NLayers))
    /\ pass_start = Both(CacheNew(NLayers), CacheNew(NLayers))
    /\ assigned = {}
    /\ calls = NoCalls
    /\ okSingle = 0
    /\ last_scaling = [no_kv_cache |-> FALSE, hidden |-> NoTensor]
    /\ requested = {}

Init ==
    /\ InitForward
    /\ moe = NoMoe

\* The caller's inputs.  The context of n tokens is <<1, ..., n>> (a token is
\* named by its place in the context) starting at seqlen_offsets_full; input_ids
\* is its suffix of s tokens, so it starts n - s positions later.
Context(n) == [k \in 1..n |-> k]
Suffix(ids, s) == SubSeq(ids, Len(ids) - s + 1, Len(ids))

\* forward, lines 747-755: dims and the dummy scalings
ForwardBegin ==
    /\ pc = "idle"
    /\ \E nc \in BOOLEAN, b \in BatchSizes, n \in 1..MaxSeq :
       \E s \in 1..n, offf \in Offsets(b) :
        /\ ~nc => \A l \in Layers :
                    /\ CachedLen(cache[l]) + s <= MaxCached
                    /\ CachedLen(xlora_cache[l]) + s <= MaxCached
        /\ args' = [input_ids |-> Ids(b, Suffix(Context(n), s)),
                    input_ids_full |-> Ids(b, Context(n)),
                    seqlen_offsets |-> [e \in 1..b |-> offf[e] + n - s],
                    seqlen_offsets_full |-> offf,
                    no_kv_cache |-> nc]
        /\ locals' = [NoLocals EXCEPT !.b_size = b, !.seq_len_full = n,
                                      !.seq_len = s,
                                      !.dummy_scalings = GetDummyScalings(b, s)]
    /\ pc' = "scaling_call"
    /\ step_start' = Both(cache, xlora_cache)
    /\ calls' = NoCalls
    /\ result' = NoTensor
    /\ UNCHANGED <<cache, xlora_cache, masks, pass, pass_start, assigned, okSingle,
                   last_scaling, requested>>
    /\ UNCHANGED moe

\* inner_forward, lines 693-709: the mask, the embedding and the cache set
InnerForwardEnter ==
    /\ pc \in {"scaling_call", "final_call"}
    /\ LET role == IF pc = "scaling_call" THEN "scaling" ELSE "final"
           a == IF role = "scaling" THEN ScalingPassArgs(args, locals)
                                    ELSE FinalPassArgs(args, locals)
           seq_len == Len(a.x.ids)
           m == Mask(masks, seq_len)
           s == SelectCache(a.is_full_pass, a.no_kv_cache, cache, xlora_cache)
       IN  /\ masks' = m.masks
           /\ requested' = requested \cup {seq_len}
           /\ cache' = s.cache
           /\ xlora_cache' = s.xlora_cache
           /\ assigned' = s.assigned
           /\ pass' = [NoPass EXCEPT !.role = role, !.x = a.x,
                                     !.start_offsets = a.start_offsets,
                                     !.scalings = a.scalings,
                                     !.is_full_pass = a.is_full_pass,
                                     !.no_kv_cache = a.no_kv_cache,
                                     !.mask = m.mask, !.i = 1, !.sel = s.sel]
           /\ calls' = [calls EXCEPT ![role] = @ + 1,
                                     !.sets[role] = {s.sel} \cup s.assigned,
                                     !.writers = IF s.assigned = {} THEN @
                                                 ELSE @ \cup {"inner_forward"}]
    /\ pass_start' = Both(cache, xlora_cache)
    /\ pc' = "layers"
    /\ UNCHANGED <<args, locals, result, step_start, okSingle, last_scaling>>
    /\ UNCHANGED moe

\* faulty variant: an error of the attention block is dropped and the loop goes on
LayerIgnoresError ==
    /\ pc = "layers"
    /\ pass.i <= NLayers
    /\ \E fault \in Faults :
        LET i == SlotIndex(pass.i)
            slot == IF pass.sel = "xlora" THEN xlora_cache[i] ELSE cache[i]
            r == ForwardAttn(pass.x, pass.mask, pass.start_offsets, slot,
                             pass.scalings, fault)
        IN  /\ IF pass.sel = "xlora"
               THEN /\ xlora_cache' = [xlora_cache EXCEPT ![i] = r.kv_cache]
                    /\ cache' = cache
               ELSE /\ cache' = [cache EXCEPT ![i] = r.kv_cache]
                    /\ xlora_cache' = xlora_cache
            /\ assigned' = IF r.stored THEN assigned \cup {pass.sel} ELSE assigned
            /\ calls' = [calls EXCEPT !.errors = IF r.ok THEN @ ELSE @ + 1,
                                      !.sets[pass.role] = @ \cup {pass.sel},
                                      !.why = r.why,
                                      !.writers = IF r.stored THEN @ \cup {"forward_attn"}
                                                  ELSE @]
            /\ pass' = [pass EXCEPT !.i = @ + 1, !.att = Append(@, r.att),
                                     !.stored = IF r.stored THEN Append(@, i) ELSE @]
            /\ pc' = "layers"
            /\ UNCHANGED <<result, okSingle>>
    /\ UNCHANGED <<masks, args, locals, step_start, pass_start, last_scaling, requested>>
    /\ UNCHANGED moe

\* inner_forward, lines 710-735: one iteration of the loop over the layers
Layer ==
    /\ pc = "layers"
    /\ pass.i <= NLayers
    /\ \E fault \in Faults :
        LET i == SlotIndex(pass.i)
            slot == IF pass.sel = "xlora" THEN xlora_cache[i] ELSE cache[i]
            r == ForwardAttn(pass.x, pass.mask, pass.start_offsets, slot,
                             pass.scalings, fault)
        IN  /\ IF pass.sel = "xlora"
               THEN /\ xlora_cache' = [xlora_cache EXCEPT ![i] = r.kv_cache]
                    /\ cache' = cache
               ELSE /\ cache' = [cache EXCEPT ![i] = r.kv_cache]
                    /\ xlora_cache' = xlora_cache
            /\ assigned' = IF r.stored THEN assigned \cup {pass.sel} ELSE assigned
            /\ calls' = [calls EXCEPT !.errors = IF r.ok THEN @ ELSE @ + 1,
                                      !.sets[pass.role] = @ \cup {pass.sel},
                                      !.why = r.why,
                                      !.writers = IF r.stored THEN @ \cup {"forward_attn"}
                                                  ELSE @]
            /\ IF r.ok
               THEN /\ pass' = [pass EXCEPT !.i = @ + 1, !.att = Append(@, r.att),
                                             !.stored = Append(@, i)]
                    /\ pc' = "layers"
                    /\ UNCHANGED <<result, okSingle>>
               ELSE /\ pass' = [pass EXCEPT !.stored = IF r.stored THEN Append(@, i)
                                                       ELSE @]
                    /\ pc' = "failed"
                    /\ result' = Err
                    /\ okSingle' = -1
    /\ UNCHANGED <<masks, args, locals, step_start, pass_start, last_scaling, requested>>
    /\ UNCHANGED moe

\* inner_forward, line 736: the final norm; the hidden states go back to forward
InnerForwardExit ==
    /\ pc = "layers"
    /\ pass.i = NLayers + 1
    /\ LET h == [kind |-> "hidden", x |-> pass.x, start_offsets |-> pass.start_offsets,
                 scalings |-> pass.scalings, att |-> pass.att]
       IN  IF pass.role = "scaling"
           THEN /\ locals' = [locals EXCEPT !.hidden_states = h]
                /\ pass' = pass
                /\ pc' = IF args.no_kv_cache THEN "placeholder" ELSE "classify"
           ELSE /\ pass' = [pass EXCEPT !.out = h]
                /\ locals' = locals
                /\ pc' = "project"
    /\ UNCHANGED <<cache, xlora_cache, masks, args, result, step_start, pass_start,
                   assigned, calls, okSingle, last_scaling, requested>>
    /\ UNCHANGED moe

\* forward, lines 766-773: placeholders into the normal cache set
ResetNormalCache ==
    /\ pc = "placeholder"
    /\ cache' = PlaceholderCache(xlora_cache)
    /\ calls' = [calls EXCEPT !.writers = @ \cup {"forward"}]
    /\ pc' = "classify"
    /\ UNCHANGED <<xlora_cache, masks, args, locals, pass, result, step_start,
                   pass_start, assigned, okSingle, last_scaling, requested>>
    /\ UNCHANGED moe

\* forward, line 786: the classifier turns the hidden states into scalings
Classify ==
    /\ pc = "classify"
    /\ locals' = [locals EXCEPT !.scalings = ClassifierForward(locals.hidden_states)]
    /\ calls' = [calls EXCEPT !.classifier = @ + 1]
    /\ pc' = "final_call"
    /\ UNCHANGED <<cache, xlora_cache, masks, args, pass, result, step_start,
                   pass_start, assigned, okSingle, last_scaling, requested>>
    /\ UNCHANGED moe

\* forward, lines 796-797 and 801-802: output projection, then the last position
Project ==
    /\ pc = "project"
    /\ LET idx == LogitsIndex(args.no_kv_cache, locals.seq_len, locals.seq_len_full)
       IN  IF idx < Len(pass.out.x.ids)
           THEN /\ result' = [kind |-> "Ok", batch |-> pass.out.x.b, index |-> idx,
                              hidden |-> pass.out]
                /\ pc' = "done"
                /\ okSingle' = IF okSingle >= 0 /\ ~args.no_kv_cache /\ locals.seq_len = 1
                               THEN okSingle + 1 ELSE -1
                /\ calls' = calls
           ELSE /\ result' = Err
                /\ pc' = "failed"
                /\ okSingle' = -1
                /\ calls' = [calls EXCEPT !.errors = @ + 1, !.why = "index"]
    /\ UNCHANGED <<cache, xlora_cache, masks, args, locals, pass, step_start, pass_start,
                   assigned, last_scaling, requested>>
    /\ UNCHANGED moe

\* forward returns Ok to the caller, who may call it again.  A step that
\* returned Err is fatal to the generation: the model is not called again.
Return ==
    /\ pc = "done"
    /\ pc' = "idle"
    /\ last_scaling' = [no_kv_cache |-> args.no_kv_cache, hidden |-> locals.hidden_states]
    /\ args' = NoArgs
    /\ locals' = NoLocals
    /\ pass' = NoPass
    /\ result' = NoTensor
    /\ calls' = NoCalls
    /\ assigned' = {}
    /\ step_start' = Both(cache, xlora_cache)
    /\ pass_start' = Both(cache, xlora_cache)
    /\ UNCHANGED <<cache, xlora_cache, masks, okSingle, requested>>
    /\ UNCHANGED moe

Next ==
    \/ ForwardBegin
    \/ InnerForwardEnter
    \/ Layer
    \/ InnerForwardExit
    \/ ResetNormalCache
    \/ Classify
    \/ Project
    \/ Return

Spec == Init /\ [][Next]_vars

\* ----------------------------------------------------------------------
\* One call of MlpOrMoe::forward on a mixture-of-experts layer.  The inputs are
\* the routing weights of each row (line 84), the number of experts and
\* n_expert_used as from_gguf reads them (lines 468-473: absent keys read 0,
\* and a layer is a mixture of experts when expert_count > 1, line 503).
MoeCall(n_expert, rw, k) ==
    [pc |-> "rows", routing_weights |-> rw, n_expert_used |-> k, row_idx |-> 1,
     expert_idx |-> 0,
     top_x |-> [e \in 1..n_expert |-> <<>>],
     selected_rws |-> [e \in 1..n_expert |-> <<>>],
     ys |-> <<>>]

InitMoE ==
    /\ InitForward
    /\ \E n_expert \in ExpertCounts :
        \E rw \in [RowIdx -> [1..n_expert -> RoutingWeights]], k \in 0..(n_expert + 1) :
            moe = MoeCall(n_expert, rw, k)

\* lines 93-108: one iteration of the loop over the rows of routing_weights
MoeRow ==
    /\ moe.pc = "rows"
    /\ moe.row_idx <= Len(moe.routing_weights)
    /\ LET r == RouteRow(moe.top_x, moe.selected_rws, moe.routing_weights[moe.row_idx],
                         moe.row_idx, moe.n_expert_used)
       IN  moe' = [moe EXCEPT !.top_x = r.top_x, !.selected_rws = r.selected_rws,
                              !.row_idx = @ + 1]
    /\ UNCHANGED <<cache, xlora_cache, masks, pc, args, locals, pass, result, step_start,
                   pass_start, assigned, calls, okSingle, last_scaling, requested>>

\* line 113: ys = xs.zeros_like()
MoeZeros ==
    /\ moe.pc = "rows"
    /\ moe.row_idx = Len(moe.routing_weights) + 1
    /\ moe' = [moe EXCEPT !.pc = "experts", !.expert_idx = 1,
                          !.ys = [r \in 1..Len(moe.routing_weights) |-> <<>>]]
    /\ UNCHANGED <<cache, xlora_cache, masks, pc, args, locals, pass, result, step_start,
                   pass_start, assigned, calls, okSingle, last_scaling, requested>>

\* lines 114-136: one iteration of the loop over the experts
MoeExpert ==
    /\ moe.pc = "experts"
    /\ moe.expert_idx <= Len(moe.top_x)
    /\ LET top_x == moe.top_x[moe.expert_idx]
           current_hidden_states ==
               ExpertTerms(top_x, moe.expert_idx, moe.selected_rws[moe.expert_idx])
       IN  moe' = [moe EXCEPT !.expert_idx = @ + 1,
                              !.ys = IF top_x = <<>> THEN @
                                     ELSE AddRows(@, top_x, current_hidden_states)]
    /\ UNCHANGED <<cache, xlora_cache, masks, pc, args, locals, pass, result, step_start,
                   pass_start, assigned, calls, okSingle, last_scaling, requested>>

\* lines 138-139: Ok(ys)
MoeReturn ==
    /\ moe.pc = "experts"
    /\ moe.expert_idx = Len(moe.top_x) + 1
    /\ moe' = [moe EXCEPT !.pc = "returned"]
    /\ UNCHANGED <<cache, xlora_cache, masks, pc, args, locals, pass, result, step_start,
                   pass_start, assigned, calls, okSingle, last_scaling, requested>>

NextMoE ==
    \/ MoeRow
    \/ MoeZeros
    \/ MoeExpert
    \/ MoeReturn

SpecMoE == InitMoE /\ [][NextMoE]_vars

\* ====================================================================
\* Properties
\* ====================================================================
SelectedSet == IF pass.sel = "xlora" THEN xlora_cache ELSE cache
InPass == pc = "layers"
AfterScalingPass == pc \in {"placeholder", "classify"}
StepDiffers == args.input_ids # args.input_ids_full

\* C1 (as stated): in every forward step, for both values of no_cache, the
\* scaling pass processes input_ids_full with position_offsets_full.
C1_ScalingPassFullContext ==
    (InPass /\ pass.role = "scaling") =>
        /\ pass.x = args.input_ids_full
        /\ pass.start_offsets = args.seqlen_offsets_full

\* C1 (amended): the scaling pass processes input_ids_full with
\* position_offsets_full when no_cache=true, and the incremental suffix
\* input_ids with position_offsets when no_cache=false; its hidden states,
\* the ones fed to the classifier, are those of that input.
C1_ScalingPassInput ==
    /\ (InPass /\ pass.role = "scaling") =>
        IF args.no_kv_cache
        THEN /\ pass.x = args.input_ids_full
             /\ pass.start_offsets = args.seqlen_offsets_full
        ELSE /\ pass.x = args.input_ids
             /\ pass.start_offsets = args.seqlen_offsets
    /\ locals.hidden_states.kind = "hidden" =>
        locals.hidden_states.x =
            IF args.no_kv_cache THEN args.input_ids_full ELSE args.input_ids

\* C1 witness: a cache-enabled scaling pass has run its layers on a suffix
\* shorter than the context.
C1_Witness ==
    /\ pc = "classify"
    /\ ~args.no_kv_cache
    /\ StepDiffers
    /\ locals.hidden_states.x = args.input_ids

C3_CacheGrowth ==
    (pc \in {"idle", "done"} /\ okSingle >= 0) =>
        \A l \in Layers :
            /\ CachedLen(xlora_cache[l]) = okSingle
            /\ xlora_cache[l].kind = IF okSingle = 0 THEN "None" ELSE "Some"

\* C3 witness: three such steps have completed.
C3_Witness ==
    /\ pc = "done"
    /\ okSingle = 3

\* C4 (as stated): after every completed no_cache=true step every slot of both
\* cache sets is empty or a placeholder.
C4_BothSetsEmptyAfterNoCache ==
    (pc = "done" /\ args.no_kv_cache) =>
        \A l \in Layers :
            /\ cache[l].kind \in {"None", "Placeholder"}
            /\ xlora_cache[l].kind \in {"None", "Placeholder"}

\* C4 (amended): after every completed no_cache=true step every slot of the
\* normal set holds the placeholder pair and every slot of the X-LoRA set holds
\* exactly the seq_len_full rows the final pass of that step computed.
C4_AfterNoCacheStep ==
    (pc = "done" /\ args.no_kv_cache) =>
        \A l \in Layers :
            /\ cache[l] = Placeholder
            /\ xlora_cache[l].kind = "Some"
            /\ CachedLen(xlora_cache[l]) = locals.seq_len_full
            /\ \A k \in 1..locals.seq_len_full :
                /\ xlora_cache[l].rows[k].tok = args.input_ids_full.ids[k]
                /\ xlora_cache[l].rows[k].scal = "real"

\* C4 witness: a no_cache=true step over a context of two tokens has completed.
C4_Witness ==
    /\ pc = "done"
    /\ args.no_kv_cache
    /\ locals.seq_len_full = 2

\* C5: one inner_forward run assigns to the slots of exactly one of the two
\* cache sets and leaves every slot of the other set as it was.
C5_PassTouchesOneSet ==
    pc \in {"layers", "project", "failed"} =>
        /\ Cardinality(assigned) <= 1
        /\ pass.i = NLayers + 1 => Cardinality(assigned) = 1
        /\ ("xlora" \notin assigned) => xlora_cache = pass_start.xlora_cache
        /\ ("normal" \notin assigned) => cache = pass_start.cache

\* C5 witness: a pass has run all its layers on the X-LoRA set while the normal
\* set holds rows.
C5_Witness ==
    /\ InPass
    /\ pass.i = NLayers + 1
    /\ assigned = {"xlora"}
    /\ \A l \in Layers : cache[l].kind = "Some"
    /\ xlora_cache # pass_start.xlora_cache

\* C6: a successful step is one scaling pass through all layers with the dummy
\* scalings, then one classifier call on its hidden states, then one final pass
\* through all layers with the scalings the classifier returned.
C6_PassOrder ==
    /\ (InPass /\ pass.role = "scaling") =>
        /\ pass.scalings = locals.dummy_scalings
        /\ pass.scalings.kind = "dummy"
        /\ calls.scaling = 1 /\ calls.classifier = 0 /\ calls.final = 0
    /\ pc = "classify" =>
        /\ locals.hidden_states.scalings.kind = "dummy"
        /\ Len(locals.hidden_states.att) = NLayers
        /\ calls.scaling = 1 /\ calls.classifier = 0 /\ calls.final = 0
    /\ (pc \in {"layers", "project", "done"} /\ pass.role = "final") =>
        /\ pass.scalings.kind = "real"
        /\ pass.scalings.of = locals.hidden_states
        /\ locals.hidden_states.scalings.kind = "dummy"
        /\ calls.scaling = 1 /\ calls.classifier = 1 /\ calls.final = 1
    /\ pc = "done" =>
        /\ Len(pass.out.att) = NLayers
        /\ pass.out.scalings.kind = "real"
        /\ calls.errors = 0

\* C6 witness: a step has completed.
C6_Witness ==
    /\ pc = "done"
    /\ result.kind = "Ok"
    /\ calls.final = 1

SameScalingInputs ==
    /\ last_scaling.hidden.kind = "hidden"
    /\ locals.hidden_states.kind = "hidden"
    /\ last_scaling.no_kv_cache = args.no_kv_cache
    /\ last_scaling.hidden.x = locals.hidden_states.x
    /\ last_scaling.hidden.start_offsets = locals.hidden_states.start_offsets
    /\ last_scaling.hidden.scalings = locals.hidden_states.scalings

\* C7 (as stated): running the scaling pass twice in a row with identical
\* token ids, offsets and dummy scalings yields identical hidden states in both
\* no_cache modes.
C7_ScalingPassDeterministic ==
    (AfterScalingPass /\ SameScalingInputs) =>
        locals.hidden_states = last_scaling.hidden

\* C7 (amended): with no_cache=true, running the scaling pass twice in a row
\* with identical token ids, offsets and dummy scalings yields identical hidden
\* states.
C7_NoCacheScalingPassDeterministic ==
    (AfterScalingPass /\ SameScalingInputs /\ args.no_kv_cache) =>
        locals.hidden_states = last_scaling.hidden

\* C7 witness: the second of two consecutive no_cache=true scaling passes with
\* the same inputs has completed.
C7_Witness ==
    /\ AfterScalingPass
    /\ SameScalingInputs
    /\ args.no_kv_cache

\* C8 (as stated): when an operation of a step returns an error, forward
\* returns it and both cache sets hold what they held before the step.
C8_FailureAtomic ==
    calls.errors > 0 =>
        /\ pc = "failed"
        /\ result = Err
        /\ cache = step_start.cache
        /\ xlora_cache = step_start.xlora_cache

\* C8 (amended): when an operation of a step returns an error, forward returns
\* that error at once: no later layer, classifier call or pass runs.  Nothing
\* is rolled back: the layers after the failing one keep what they held when
\* the pass started its loop, the failing layer's slot holds either that or
\* the rows stored before the error.
C8_FailureReturnsError ==
    /\ calls.errors > 0 => (pc = "failed" /\ result = Err /\ calls.errors = 1)
    /\ pc = "failed" =>
        /\ calls.errors = 1
        /\ pass.role = "scaling" =>
            /\ calls.classifier = 0
            /\ calls.final = 0
            /\ locals.hidden_states = NoTensor
        /\ Len(pass.att) = pass.i - 1
        /\ \A l \in Layers :
            l > pass.i =>
                SelectedSet[l] =
                    IF pass.no_kv_cache /\ pass.is_full_pass
                    THEN None
                    ELSE (IF pass.sel = "xlora" THEN pass_start.xlora_cache
                                                ELSE pass_start.cache)[l]

\* C8 witness: a step failed in its second layer after storing into the slot
\* of the first.
C8_Witness ==
    /\ pc = "failed"
    /\ pass.i = 2
    /\ SelectedSet[1] # (IF pass.sel = "xlora" THEN step_start.xlora_cache
                                               ELSE step_start.cache)[1]
    /\ SelectedSet[1].kind = "Some"

\* C9: the final pass processes input_ids with position_offsets when
\* no_cache=false and input_ids_full with position_offsets_full when
\* no_cache=true, and the logits are the projection of its hidden state at the
\* last position of that input, one row per batch element.
C9_FinalPassAndLogits ==
    /\ (pc \in {"layers", "project", "done"} /\ pass.role = "final") =>
        IF args.no_kv_cache
        THEN /\ pass.x = args.input_ids_full
             /\ pass.start_offsets = args.seqlen_offsets_full
        ELSE /\ pass.x = args.input_ids
             /\ pass.start_offsets = args.seqlen_offsets
    /\ pc = "done" =>
        /\ result.kind = "Ok"
        /\ result.hidden = pass.out
        /\ result.hidden.x = pass.x
        /\ result.index = Len(pass.x.ids) - 1
        /\ result.batch = locals.b_size

\* C9 witness: a no_cache=true step whose suffix is shorter than its context
\* has returned logits.
C9_Witness ==
    /\ pc = "done"
    /\ args.no_kv_cache
    /\ locals.seq_len < locals.seq_len_full
    /\ result.index = locals.seq_len_full - 1

MaskEntry(m, i, j) == m.data[i * m.shape[2] + j + 1]

MasksWellFormed ==
    /\ DOMAIN masks = requested
    /\ \A t \in DOMAIN masks :
        /\ masks[t].shape = <<t, t>>
        /\ Len(masks[t].data) = t * t
        /\ \A i \in 0..(t - 1), j \in 0..(t - 1) :
            (MaskEntry(masks[t], i, j) = 1) <=> (j > i)
    /\ InPass => pass.mask = masks[Len(pass.x.ids)]

MasksOnlyGrow ==
    \A t \in DOMAIN masks : t \in DOMAIN masks' /\ masks'[t] = masks[t]

\* C10: the mask memo table maps each stored length t to the t-by-t mask with
\* entry (i,j) masked iff j > i; its keys are the lengths requested so far, a
\* pass gets the stored mask of its length, and no entry is ever removed or
\* overwritten.
C10_MaskMemo == [](MasksWellFormed) /\ [][MasksOnlyGrow]_vars

\* C10 witness: both lengths are stored and a pass got the length-2 mask from
\* the table on a later request.
C10_Witness ==
    /\ DOMAIN masks = {1, 2}
    /\ InPass
    /\ pass.role = "final"
    /\ args.no_kv_cache
    /\ Len(pass.x.ids) = 2
    /\ pass.mask = masks[2]

\* Some batch element's offset + sequence length lies beyond the rotary table.
Exceeds(x, start_offsets) ==
    \E e \in 1..x.b : start_offsets[e] + Len(x.ids) > MAX_SEQ_LEN

\* C13: a step fails whenever offset + sequence length of the input a pass
\* processes exceeds MAX_SEQ_LEN for some batch element (no attention call of
\* that pass succeeds and the step never gets past the pass), and the rotary
\* encoder fails for that reason only then.
C13_RotaryLimit ==
    /\ (pc = "layers" /\ Exceeds(pass.x, pass.start_offsets)) => pass.i = 1
    /\ pc \in {"placeholder", "classify", "final_call", "project", "done"} =>
           ~Exceeds(ScalingPassArgs(args, locals).x,
                    ScalingPassArgs(args, locals).start_offsets)
    /\ pc \in {"project", "done"} =>
           ~Exceeds(FinalPassArgs(args, locals).x, FinalPassArgs(args, locals).start_offsets)
    /\ (pc = "failed" /\ calls.why = "rotary") => Exceeds(pass.x, pass.start_offsets)
    /\ (pc = "failed" /\ Exceeds(pass.x, pass.start_offsets)) =>
           calls.why \in {"rotary", "backend"}

\* a pass over two sequences failed in the rotary encoder because the second one
\* ends one position beyond the table, the first one being well inside it
C13_Witness ==
    /\ pc = "failed"
    /\ calls.why = "rotary"
    /\ pass.x.b = 2
    /\ pass.start_offsets[1] + Len(pass.x.ids) <= MAX_SEQ_LEN
    /\ pass.start_offsets[2] + Len(pass.x.ids) = MAX_SEQ_LEN + 1

\* C14 (as stated): within a forward step the attention block is the only code
\* that assigns to a slot of either cache set.
C14_AttentionSoleWriter ==
    calls.writers \subseteq {"forward_attn"}

\* attention has written slots 1, 2, ... of the pass's set, each once and in
\* ascending order: one per layer that did not fail before its store
AttentionWritesAscending ==
    /\ pass.stored = [j \in 1..Len(pass.stored) |-> j]
    /\ pc = "layers" => Len(pass.stored) = pass.i - 1
    /\ pc \in {"placeholder", "classify", "project", "done"} => Len(pass.stored) = NLayers
    /\ (pc = "failed" /\ calls.why # "index") => Len(pass.stored) \in {pass.i - 1, pass.i}
\* the code that has assigned to a slot since the step began
WritersOfStep ==
    IF args.no_kv_cache
    THEN /\ calls.writers \subseteq {"forward_attn", "inner_forward", "forward"}
         /\ pc = "done" => calls.writers = {"forward_attn", "inner_forward", "forward"}
    ELSE calls.writers \subseteq {"forward_attn"}
\* a step of the model changes a cache set only in the attention block or, with
\* no_cache, in the reset of inner_forward or the placeholder store of forward
CacheChangedBy ==
    (cache' # cache \/ xlora_cache' # xlora_cache) =>
        \/ pc = "layers"
        \/ args.no_kv_cache /\ pc \in {"scaling_call", "final_call"} /\ xlora_cache' # xlora_cache
                            /\ cache' = cache
        \/ args.no_kv_cache /\ pc = "placeholder" /\ cache' # cache
                            /\ xlora_cache' = xlora_cache

\* C14 (amended): attention writes slot i once per pass in ascending layer order
\* and is the only writer of a slot when the cache is enabled; with no_cache,
\* inner_forward also replaces the X-LoRA set by empty slots at the start of each
\* pass and forward replaces the normal set by placeholders after the scaling pass.
C14_SlotWriters ==
    /\ [](AttentionWritesAscending /\ WritersOfStep)
    /\ [][CacheChangedBy]_vars

\* a finished no_cache step: all three writers have assigned, attention to every
\* slot of the final pass in order
C14_Witness ==
    /\ pc = "done"
    /\ args.no_kv_cache
    /\ calls.writers = {"forward_attn", "inner_forward", "forward"}
    /\ pass.stored = [j \in 1..NLayers |-> j]
    /\ NLayers > 1

\* the attention call of layer pass.i returned Ok in this step of the model
AttentionSucceeds == pc = "layers" /\ pc' = "layers" /\ pass'.i = pass.i + 1
\* the slot of layer pass.i holds its old rows followed by the new keys/values
SlotAppended ==
    LET old == IF pass.sel = "xlora" THEN xlora_cache[pass.i] ELSE cache[pass.i]
        new == IF pass.sel = "xlora" THEN xlora_cache'[pass.i] ELSE cache'[pass.i]
        c == CachedLen(old)
        s == Len(pass.x.ids)
    IN  /\ new.kind = "Some"
        /\ Len(new.rows) = c + s
        /\ \A j \in 1..c : new.rows[j] = old.rows[j]
        /\ \A j \in 1..s :
            /\ new.rows[c + j].tok = pass.x.ids[j]
            /\ new.rows[c + j].pos = [e \in 1..pass.x.b |-> pass.start_offsets[e] + j - 1]
\* a slot gets shorter only in the reset of inner_forward or the placeholder
\* store of forward
ShrinksOnlyByReset ==
    \A l \in Layers :
        /\ CachedLen(cache'[l]) < CachedLen(cache[l]) =>
               pc = "placeholder"
        /\ CachedLen(xlora_cache'[l]) < CachedLen(xlora_cache[l]) =>
               pc \in {"scaling_call", "final_call"} /\ args.no_kv_cache

\* C15: a successful attention call on a slot of c cached positions with s new
\* ones leaves c + s positions, the cached rows first and unchanged, then the new
\* rows in input order; a slot's length decreases only by an explicit reset.
C15_AppendOnly ==
    [][(AttentionSucceeds => SlotAppended) /\ ShrinksOnlyByReset]_vars

\* the first layer's call has just appended the new row to a slot that already
\* held rows when the pass began
C15_Witness ==
    /\ pc = "layers"
    /\ pass.i = 2
    /\ CachedLen(pass_start[IF pass.sel = "xlora" THEN "xlora_cache" ELSE "cache"][1]) > 0
    /\ CachedLen(SelectedSet[1]) =
           CachedLen(pass_start[IF pass.sel = "xlora" THEN "xlora_cache" ELSE "cache"][1])
               + Len(pass.x.ids)

\* C16 (as stated): the dummy scalings handed to the scaling pass have the batch
\* size and the sequence length of the token sequence the scaling pass processes.
C16_DummyScalingsShape ==
    (pc = "layers" /\ pass.role = "scaling") =>
        /\ pass.scalings.b = pass.x.b
        /\ pass.scalings.s = Len(pass.x.ids)

\* C16 (what forward does): the dummy scalings have the batch size of
\* input_ids_full and the sequence length of input_ids, which are those of the
\* processed sequence when the cache is enabled or the two lengths are equal.
C16_DummyScalingsOfInputIds ==
    (pc = "layers" /\ pass.role = "scaling") =>
        /\ pass.scalings.kind = "dummy"
        /\ pass.scalings.b = args.input_ids_full.b
        /\ pass.scalings.s = Len(args.input_ids.ids)
        /\ (~args.no_kv_cache \/ locals.seq_len = locals.seq_len_full) =>
               /\ pass.scalings.b = pass.x.b
               /\ pass.scalings.s = Len(pass.x.ids)

\* a cache-enabled scaling pass over a proper suffix of the context
C16_Witness ==
    /\ pc = "layers"
    /\ pass.role = "scaling"
    /\ ~args.no_kv_cache
    /\ locals.seq_len < locals.seq_len_full
    /\ pass.scalings.s = Len(pass.x.ids)

\* the mask that masked_fill applies in the attention call of layer pass.i has a
\* column per key of the slot, and a query (the i-th new position, at place
\* c + i of the slot) is not masked from a key only if the key is not after it
MaskCoversKeys ==
    LET old == IF pass.sel = "xlora" THEN xlora_cache[pass.i] ELSE cache[pass.i]
        new == IF pass.sel = "xlora" THEN xlora_cache'[pass.i] ELSE cache'[pass.i]
        c == CachedLen(old)
        s == Len(pass.x.ids)
        keys == Len(new.rows)
        m == BroadcastAs(pass.mask, s, keys)
    IN  /\ keys = c + s
        /\ pass.mask.shape = <<s, s>>
        /\ BroadcastOk(pass.mask.shape, s, keys)
        /\ \A i \in 1..s :
            /\ Len(m[i]) = keys
            /\ \A j \in 1..keys : m[i][j] = 0 <=> j <= c + i
\* layer pass.i of a cache-enabled pass is about to be fed more than one new
\* token on a slot that holds cached positions
SeveralTokensOnCachedSlot ==
    /\ pc = "layers"
    /\ pass.i <= NLayers
    /\ ~pass.no_kv_cache
    /\ Len(pass.x.ids) > 1
    /\ CachedLen(IF pass.sel = "xlora" THEN xlora_cache[pass.i] ELSE cache[pass.i]) > 0

\* C17: a successful attention call applies a mask with one column per attended
\* key under which no query attends to a later key; a cache-enabled call with
\* more than one new token on a slot with cached positions fails (at the
\* broadcast of the mask, unless an earlier call of the block failed).
C17_MaskMatchesKeys ==
    [][/\ SeveralTokensOnCachedSlot =>
              pc' = "failed" /\ calls'.why \in {"mask", "backend", "rotary", "cat"}
       /\ AttentionSucceeds => MaskCoversKeys]_vars

\* two new tokens on a slot with a cached row: the broadcast of the (2, 2) mask
\* to the scores failed
C17_Witness ==
    /\ pc = "failed"
    /\ calls.why = "mask"
    /\ ~pass.no_kv_cache
    /\ Len(pass.x.ids) > 1
    /\ CachedLen(pass_start[IF pass.sel = "xlora" THEN "xlora_cache" ELSE "cache"][pass.i]) > 0

\* ---------------------------------------------------------------------
\* Mixture of experts (specification SpecMoE)
RoutedRows == 1..(moe.row_idx - 1)
SelectedExperts(row) == {e \in DOMAIN moe.top_x : row \in Range(moe.top_x[e])}
\* e comes before f when the experts are ordered by routing weight descending,
\* ties by ascending expert index
RanksBefore(rw, e, f) == rw[e] > rw[f] \/ (rw[e] = rw[f] /\ e < f)

\* C11: for every routed token the selected experts are exactly the first
\* min(k, number of experts) experts in the order by routing weight descending,
\* ties by ascending index; a token is assigned to at most k experts and to no
\* expert twice.
C11_TopKSelection ==
    moe.pc # "off" =>
        \A row \in RoutedRows :
            LET rw == moe.routing_weights[row]
                S == SelectedExperts(row)
            IN  /\ Cardinality(S) = Min(moe.n_expert_used, Len(rw))
                /\ \A e \in S, f \in (1..Len(rw)) \ S : RanksBefore(rw, e, f)
                /\ Cardinality(S) <= moe.n_expert_used
                /\ \A e \in DOMAIN moe.top_x : Count(row, moe.top_x[e]) <= 1

\* a returned call in which a tie of routing weights was cut by the expert index
C11_Witness ==
    /\ moe.pc = "returned"
    /\ \E row \in RoutedRows :
        LET rw == moe.routing_weights[row]
            S == SelectedExperts(row)
        IN  /\ moe.n_expert_used \in 1..(Len(rw) - 1)
            /\ \E e \in S, f \in (1..Len(rw)) \ S : rw[e] = rw[f]
            /\ \E e \in S, f \in (1..Len(rw)) \ S : rw[e] > rw[f]

\* the first min(k, n) experts of a row in the order of RanksBefore
TopK(rw, k) ==
    CHOOSE S \in SUBSET (1..Len(rw)) :
        /\ Cardinality(S) = Min(k, Len(rw))
        /\ \A e \in S, f \in (1..Len(rw)) \ S : RanksBefore(rw, e, f)
RECURSIVE SetSum(_, _)
SetSum(f, S) ==
    IF S = {} THEN 0
    ELSE LET e == CHOOSE e \in S : TRUE IN f[e] + SetSum(f, S \ {e})
\* the coefficient w_e / (sum of the row's selected weights)
Coefficient(rw, k, e) == <<rw[e], SetSum(rw, TopK(rw, k))>>
\* the coefficients num/den of the terms of a row add up to 1
CoefficientsSumToOne(terms) ==
    /\ terms # <<>>
    /\ \A t \in DOMAIN terms :
        terms[t].coef[2] = SumOver([u \in DOMAIN terms |-> terms[u].coef[1]],
                                   [u \in DOMAIN terms |-> u])
\* row `row` of the output is the sum over the row's top-k experts e of
\* Coefficient(e) * expert_e(row), each once; the weights stored for an expert
\* are aligned with the rows gathered for it
WeightedExpertSum(row) ==
    LET rw == moe.routing_weights[row]
        k == moe.n_expert_used
    IN  /\ Range(moe.ys[row]) =
              {[expert |-> e, x |-> row, coef |-> Coefficient(rw, k, e)] : e \in TopK(rw, k)}
        /\ Len(moe.ys[row]) = Cardinality(TopK(rw, k))
StoredWeightsAligned ==
    \A e \in DOMAIN moe.top_x :
        /\ Len(moe.selected_rws[e]) = Len(moe.top_x[e])
        /\ \A i \in DOMAIN moe.top_x[e] :
            moe.selected_rws[e][i] =
                Coefficient(moe.routing_weights[moe.top_x[e][i]], moe.n_expert_used, e)

\* C12 (as stated): for every token and every configured k the output row is the
\* weighted sum over its selected experts with coefficients that sum to 1, the
\* stored weights being aligned with the gathered rows.
C12_ConvexCombination ==
    moe.pc = "returned" =>
        /\ StoredWeightsAligned
        /\ \A row \in DOMAIN moe.ys :
            WeightedExpertSum(row) /\ CoefficientsSumToOne(moe.ys[row])

\* C12 (amended): the above for every k >= 1; with k = 0 (an absent
\* llama.expert_used_count) no expert is selected and every output row is zero.
C12_WeightedSumOfTopK ==
    moe.pc = "returned" =>
        /\ StoredWeightsAligned
        /\ \A row \in DOMAIN moe.ys :
            /\ WeightedExpertSum(row)
            /\ moe.n_expert_used >= 1 => CoefficientsSumToOne(moe.ys[row])
            /\ moe.n_expert_used = 0 => moe.ys[row] = <<>>

\* a returned call with k >= 1 in which an expert got two rows with different
\* coefficients and another expert got no row
C12_Witness ==
    /\ moe.pc = "returned"
    /\ moe.n_expert_used >= 1
    /\ \E e \in DOMAIN moe.top_x :
        /\ Len(moe.top_x[e]) = 2
        /\ moe.selected_rws[e][1] # moe.selected_rws[e][2]
    /\ \E e \in DOMAIN moe.top_x : moe.top_x[e] = <<>>

====
